---- MODULE Spec2Model ----
(***************************************************************************)
(* Model of webex_bot/models/response.py: the Response envelope, its       *)
(* property setters, as_dict(), json() and the two builder functions.      *)
(*                                                                         *)
(* Python objects are modelled by value records of one uniform shape       *)
(* [t, s, n, l] (tag, string payload, integer payload, children).  The     *)
(* mutable containers a Response owns (the attributes dict and the lists   *)
(* stored under "files" and "attachments") live in a heap and are referred *)
(* to by address, so that aliasing between two Responses is expressible.   *)
(***************************************************************************)
EXTENDS Integers, Sequences, FiniteSets, TLC

VARIABLES heap, resp, origin, passed, calls, err

vars == <<heap, resp, origin, passed, calls, err>>

\* Bound on the number of setter calls made after construction (all slots).
MaxCalls == 3

\* The Response variables of the calling program.
Slots == {1, 2}

----------------------------------------------------------------------------
(* Python values *)

None == [t |-> "None", s |-> "", n |-> 0, l |-> <<>>]
Str(x) == [t |-> "str", s |-> x, n |-> 0, l |-> <<>>]
Num(i) == [t |-> "int", s |-> "", n |-> i, l |-> <<>>]
Bool(b) == [t |-> "bool", s |-> "", n |-> IF b THEN 1 ELSE 0, l |-> <<>>]
List(xs) == [t |-> "list", s |-> "", n |-> 0, l |-> xs]
Pair(k, v) == [t |-> "pair", s |-> k, n |-> 0, l |-> <<v>>]
Dict(ps) == [t |-> "dict", s |-> "", n |-> 0, l |-> ps]
Ref(a) == [t |-> "ref", s |-> "", n |-> a, l |-> <<>>]

\* The marker a subscript on a missing key produces.
KeyError == [t |-> "KeyError", s |-> "", n |-> 0, l |-> <<>>]

\* Python truth value of v in heap h (the test of `if v:`).
Truthy(v, h) ==
  CASE v.t = "None" -> FALSE
    [] v.t = "str" -> v.s # ""
    [] v.t = "int" -> v.n # 0
    [] v.t = "bool" -> v.n # 0
    [] v.t = "ref" -> h[v.n].l # <<>>
    [] OTHER -> v.l # <<>>

\* dict operations on an insertion-ordered sequence of pairs
HasKey(ps, k) == \E i \in 1..Len(ps) : ps[i].s = k

DictGet(ps, k) ==
  IF HasKey(ps, k)
  THEN ps[CHOOSE i \in 1..Len(ps) : ps[i].s = k].l[1]
  ELSE KeyError

DictSet(ps, k, v) ==
  IF HasKey(ps, k)
  THEN [i \in 1..Len(ps) |-> IF ps[i].s = k THEN Pair(k, v) ELSE ps[i]]
  ELSE Append(ps, Pair(k, v))

Keys(ps) == {ps[i].s : i \in 1..Len(ps)}

\* The value v with every reference replaced by the object it refers to.
RECURSIVE Inline(_, _)
Inline(v, h) ==
  IF v.t = "ref" THEN Inline(h[v.n], h)
  ELSE IF v.l = <<>> THEN v
  ELSE [v EXCEPT !.l = [i \in 1..Len(v.l) |-> Inline(v.l[i], h)]]

\* The caller evaluates a dict literal: every list in it is a fresh object.
RECURSIVE AllocPairs(_, _)
AllocPairs(ps, h) ==
  IF ps = <<>> THEN [h |-> h, ps |-> <<>>]
  ELSE LET p == Head(ps)
           v == p.l[1]
           h1 == IF v.t = "list" THEN Append(h, v) ELSE h
           p1 == IF v.t = "list" THEN Pair(p.s, Ref(Len(h1))) ELSE p
           rest == AllocPairs(Tail(ps), h1)
       IN [h |-> rest.h, ps |-> <<p1>> \o rest.ps]

----------------------------------------------------------------------------
(* Response.__init__ *)

CanonicalKeys == {"text", "roomId", "parentId", "markdown", "html", "files", "attachments"}

ScalarKeys == {"text", "roomId", "parentId", "markdown", "html"}

\* variant: text defaults to the empty string
DefaultAttributes_emptytext(fa, aa) ==
  << Pair("text", Str("")), Pair("roomId", None), Pair("parentId", None),
     Pair("markdown", None), Pair("html", None),
     Pair("files", Ref(fa)), Pair("attachments", Ref(aa)) >>

\* Lines 86-93: the default record; fa and aa are the addresses of the two
\* new lists.
DefaultAttributes(fa, aa) ==
  << Pair("text", None), Pair("roomId", None), Pair("parentId", None),
     Pair("markdown", None), Pair("html", None),
     Pair("files", Ref(fa)), Pair("attachments", Ref(aa)) >>

\* variant: the two lists are created once and shared by every default record
NewDefault_shared(h) ==
  LET have == Len(h) >= 2 /\ h[1].t = "list" /\ h[2].t = "list"
      fa == IF have THEN 1 ELSE Len(h) + 1
      aa == IF have THEN 2 ELSE Len(h) + 2
      a  == IF have THEN Len(h) + 1 ELSE Len(h) + 3
  IN [h |-> h \o (IF have THEN <<>> ELSE <<List(<<>>), List(<<>>)>>)
                \o <<Dict(DefaultAttributes(fa, aa))>>,
      a |-> a]

\* Lines 86-93 on heap h: two new lists and the new dict; a is the dict.
NewDefault(h) ==
  LET fa == Len(h) + 1
      aa == Len(h) + 2
      a  == Len(h) + 3
  IN [h |-> h \o <<List(<<>>), List(<<>>), Dict(DefaultAttributes(fa, aa))>>,
      a |-> a]

\* variant: the default record is built whatever the argument
Response_init_defaults(h, arg) == NewDefault(h)

\* Lines 83-93.  arg is None or a reference to the caller's mapping.
Response_init(h, arg) ==
  IF Truthy(arg, h)
  THEN [h |-> h, a |-> arg.n]
  ELSE NewDefault(h)

----------------------------------------------------------------------------
(* setters, on a heap h and the address a of the attributes dict *)

\* self.attributes[k] = val
SetItem(h, a, k, val) == [h EXCEPT ![a].l = DictSet(h[a].l, k, val)]

\* The exception self.attributes[k].append(val) raises, "" if none.
AppendError(h, a, k) ==
  LET cur == DictGet(h[a].l, k)
  IN IF cur.t = "KeyError" THEN "KeyError"
     ELSE IF cur.t # "ref" \/ h[cur.n].t # "list" THEN "AttributeError"
     ELSE ""

\* variant: insert(0, val) in place of append(val)
AppendItem_prepend(h, a, k, val) ==
  LET cur == DictGet(h[a].l, k)
  IN [h EXCEPT ![cur.n].l = <<val>> \o h[cur.n].l]

\* self.attributes[k].append(val)
AppendItem(h, a, k, val) ==
  LET cur == DictGet(h[a].l, k)
  IN [h EXCEPT ![cur.n].l = Append(h[cur.n].l, val)]

\* the setters as the methods of the class, lines 104-217
text_setter(h, a, val) == SetItem(h, a, "text", val)
roomId_setter(h, a, val) == SetItem(h, a, "roomId", val)
parentId_setter(h, a, val) == SetItem(h, a, "parentId", val)
markdown_setter(h, a, val) == SetItem(h, a, "markdown", val)
\* variant: the html setter writes the markdown entry
html_setter_wrongkey(h, a, val) == SetItem(h, a, "markdown", val)

html_setter(h, a, val) == SetItem(h, a, "html", val)
\* variant: the files setter assigns like the scalar setters
files_setter_assign(h, a, val) == SetItem(h, a, "files", val)

files_setter(h, a, val) == AppendItem(h, a, "files", val)
attachments_setter(h, a, val) == AppendItem(h, a, "attachments", val)

\* the property getters: self.attributes[k]
Getter(h, a, k) == DictGet(h[a].l, k)

----------------------------------------------------------------------------
(* as_dict and json *)

\* variant: the filter is `if v is not None`
RECURSIVE as_dict_loop_notnone(_, _, _)
as_dict_loop_notnone(items, h, ret) ==
  IF items = <<>> THEN ret
  ELSE LET k == Head(items).s
           v == Head(items).l[1]
       IN as_dict_loop_notnone(Tail(items), h,
                               IF v.t # "None" THEN DictSet(ret, k, v) ELSE ret)

RECURSIVE as_dict_loop(_, _, _)
as_dict_loop(items, h, ret) ==
  IF items = <<>> THEN ret
  ELSE LET k == Head(items).s
           v == Head(items).l[1]
       IN as_dict_loop(Tail(items), h,
                       IF Truthy(v, h) THEN DictSet(ret, k, v) ELSE ret)

as_dict(h, a) == as_dict_loop(h[a].l, h, <<>>)

\* JSON text, as its sequence of tokens
Tok(x) == [t |-> "punct", s |-> x, n |-> 0, l |-> <<>>]

RECURSIVE Dumps(_, _)
RECURSIVE DumpsItems(_, _)
RECURSIVE DumpsPairs(_, _)
Dumps(v, h) ==
  CASE v.t = "None" -> <<Tok("null")>>
    [] v.t = "bool" -> <<Tok(IF v.n = 1 THEN "true" ELSE "false")>>
    [] v.t = "int" -> <<Num(v.n)>>
    [] v.t = "str" -> <<Str(v.s)>>
    [] v.t = "ref" -> Dumps(h[v.n], h)
    [] v.t = "list" -> <<Tok("[")>> \o DumpsItems(v.l, h) \o <<Tok("]")>>
    [] v.t = "dict" -> <<Tok("{")>> \o DumpsPairs(v.l, h) \o <<Tok("}")>>

DumpsItems(xs, h) ==
  IF xs = <<>> THEN <<>>
  ELSE Dumps(Head(xs), h) \o
       (IF Tail(xs) = <<>> THEN <<>> ELSE <<Tok(",")>> \o DumpsItems(Tail(xs), h))

DumpsPairs(ps, h) ==
  IF ps = <<>> THEN <<>>
  ELSE <<Str(Head(ps).s), Tok(":")>> \o Dumps(Head(ps).l[1], h) \o
       (IF Tail(ps) = <<>> THEN <<>> ELSE <<Tok(",")>> \o DumpsPairs(Tail(ps), h))

\* variant: json.dumps(self.as_dict())
json_filtered(h, a) == Dumps(Dict(as_dict(h, a)), h)

json(h, a) == Dumps(h[a], h)

\* json.loads: the parser; a result is [v |-> value, i |-> next position].
RECURSIVE ParseValue(_, _)
RECURSIVE ParseItems(_, _, _)
RECURSIVE ParseMembers(_, _, _)
ParseValue(toks, i) ==
  LET tk == toks[i]
  IN CASE tk.t = "str" -> [v |-> Str(tk.s), i |-> i + 1]
       [] tk.t = "int" -> [v |-> Num(tk.n), i |-> i + 1]
       [] tk = Tok("null") -> [v |-> None, i |-> i + 1]
       [] tk = Tok("true") -> [v |-> Bool(TRUE), i |-> i + 1]
       [] tk = Tok("false") -> [v |-> Bool(FALSE), i |-> i + 1]
       [] tk = Tok("[") ->
            IF toks[i + 1] = Tok("]") THEN [v |-> List(<<>>), i |-> i + 2]
            ELSE ParseItems(toks, i + 1, <<>>)
       [] tk = Tok("{") ->
            IF toks[i + 1] = Tok("}") THEN [v |-> Dict(<<>>), i |-> i + 2]
            ELSE ParseMembers(toks, i + 1, <<>>)

ParseItems(toks, i, acc) ==
  LET r == ParseValue(toks, i)
      acc1 == Append(acc, r.v)
  IN IF toks[r.i] = Tok(",") THEN ParseItems(toks, r.i + 1, acc1)
     ELSE [v |-> List(acc1), i |-> r.i + 1]

ParseMembers(toks, i, acc) ==
  LET r == ParseValue(toks, i + 2)
      acc1 == DictSet(acc, toks[i].s, r.v)
  IN IF toks[r.i] = Tok(",") THEN ParseMembers(toks, r.i + 1, acc1)
     ELSE [v |-> Dict(acc1), i |-> r.i + 1]

Loads(toks) == ParseValue(toks, 1).v

----------------------------------------------------------------------------
(* the builder functions *)

Fallback == Str("This bot requires a client which can render cards.")

CardContentType == Str("application/vnd.microsoft.card.adaptive")

\* AdaptiveCard.to_dict() of the SDK: the card's dictionary export.  A card
\* is [version, body]; an empty body is left out of the export.
RECURSIVE TextBlocks(_)
TextBlocks(body) ==
  IF body = <<>> THEN <<>>
  ELSE <<Dict(<<Pair("type", Str("TextBlock")), Pair("text", Str(Head(body)))>>)>>
       \o TextBlocks(Tail(body))

to_dict(card) ==
  Dict(<<Pair("type", Str("AdaptiveCard")), Pair("version", Str(card.version))>>
       \o (IF card.body = <<>> THEN <<>>
           ELSE <<Pair("body", List(TextBlocks(card.body)))>>))

\* variant: the card's export is appended without its envelope
response_from_adaptive_card_bare(h, adaptive_card) ==
  LET response == Response_init(h, None)
      h1 == text_setter(response.h, response.a, Fallback)
      h2 == markdown_setter(h1, response.a, Fallback)
      h3 == attachments_setter(h2, response.a, to_dict(adaptive_card))
  IN [h |-> h3, a |-> response.a]

\* Lines 17-25.
response_from_adaptive_card(h, adaptive_card) ==
  LET response == Response_init(h, None)
      h1 == text_setter(response.h, response.a, Fallback)
      h2 == markdown_setter(h1, response.a, Fallback)
      h3 == attachments_setter(h2, response.a,
               Dict(<<Pair("contentType", CardContentType),
                      Pair("content", to_dict(adaptive_card))>>))
  IN [h |-> h3, a |-> response.a]

\* variant: the lists are extended by the given sequences, not appended to
response_custom_format_extend(h, text, markdown, files, attachments) ==
  LET response == Response_init(h, None)
      h1 == text_setter(response.h, response.a, text)
      h2 == markdown_setter(h1, response.a, markdown)
      fa == Getter(h2, response.a, "files").n
      h3 == IF Truthy(files, h2) THEN [h2 EXCEPT ![fa].l = @ \o files.l] ELSE h2
      aa == Getter(h3, response.a, "attachments").n
      h4 == IF Truthy(attachments, h3)
            THEN [h3 EXCEPT ![aa].l = @ \o attachments.l] ELSE h3
  IN [h |-> h4, a |-> response.a]

\* Lines 42-51.  files and attachments are None when omitted.
response_custom_format(h, text, markdown, files, attachments) ==
  LET response == Response_init(h, None)
      h1 == text_setter(response.h, response.a, text)
      h2 == markdown_setter(h1, response.a, markdown)
      h3 == IF Truthy(files, h2) THEN files_setter(h2, response.a, files) ELSE h2
      h4 == IF Truthy(attachments, h3)
            THEN attachments_setter(h3, response.a, attachments) ELSE h3
  IN [h |-> h4, a |-> response.a]

----------------------------------------------------------------------------
(* inputs *)

ScalarVals == {None, Str(""), Str("hi")}

FileVals == {Str("f1.png"), List(<<Str("f2.png"), Str("f3.png")>>)}

AttachmentVals == {Str("a1"), Dict(<<Pair("contentType", Str("text/plain"))>>)}

TextArgs == {Str("hi"), Str("")}

MarkdownArgs == {Str("**hi**")}

FilesArgs == {None, List(<<>>), List(<<Str("f1.png")>>)}

AttachmentsArgs == {None, List(<<>>), List(<<Dict(<<Pair("contentType", Str("text/plain"))>>)>>)}

Cards == { [version |-> "1.1", body |-> <<>>],
           [version |-> "1.2", body |-> <<"Hello", "World">>] }

\* caller-supplied mappings
EmptyMapping == Dict(<<>>)

PartialMapping == Dict(<<Pair("text", Str("hi"))>>)

FalsyMapping ==
  Dict(<<Pair("text", Str("")), Pair("roomId", Num(0)), Pair("parentId", Bool(FALSE)),
         Pair("markdown", None), Pair("html", Str("")),
         Pair("files", List(<<>>)), Pair("attachments", List(<<>>))>>)

TruthyMapping ==
  Dict(<<Pair("attachments", List(<<>>)), Pair("files", List(<<Str("f0.png")>>)),
         Pair("html", Str("<b>hi</b>")), Pair("markdown", Str("**hi**")),
         Pair("parentId", Bool(TRUE)), Pair("roomId", Num(7)),
         Pair("text", Str("hi"))>>)

NullListsMapping ==
  Dict(<<Pair("text", Str("hi")), Pair("files", None),
         Pair("attachments", Str("a0")), Pair("extra", Num(1))>>)

Mappings == {EmptyMapping, PartialMapping, FalsyMapping, TruthyMapping, NullListsMapping}

----------------------------------------------------------------------------
(* the calling program *)

\* How a slot got its Response: the function called, the mapping handed to
\* the constructor (None when there was none), the builder's arguments.
Unbound == [by |-> "unbound", arg |-> None, args |-> <<>>]

NoCalls == [files |-> <<>>, attachments |-> <<>>]

Init ==
  /\ heap = <<>>
  /\ resp = [r \in Slots |-> 0]
  /\ origin = [r \in Slots |-> Unbound]
  /\ passed = [r \in Slots |-> NoCalls]
  /\ calls = [r \in Slots |-> 0]
  /\ err = ""

CallsLeft == calls[1] + calls[2] < MaxCalls

\* r = <builder>(...) or r = Response(...): result res, ghost origin o
Bind(r, res, o, p) ==
  /\ resp[r] = 0
  /\ heap' = res.h
  /\ resp' = [resp EXCEPT ![r] = res.a]
  /\ origin' = [origin EXCEPT ![r] = o]
  /\ passed' = [passed EXCEPT ![r] = p]
  /\ err' = ""
  /\ UNCHANGED calls

\* r = Response()  or  r = Response({...})
Construct(r, M) ==
  \E m \in M :
    LET ap == AllocPairs(m.l, heap)
        h1 == IF m = None THEN heap ELSE Append(ap.h, Dict(ap.ps))
        arg == IF m = None THEN None ELSE Ref(Len(h1))
    IN Bind(r, Response_init(h1, arg), [by |-> "Response", arg |-> m, args |-> <<>>], NoCalls)

\* r = Response(r2.attributes)
ConstructFrom(r) ==
  \E r2 \in Slots \ {r} :
    /\ resp[r2] # 0
    /\ Bind(r, Response_init(heap, Ref(resp[r2])),
            [by |-> "Response", arg |-> Inline(heap[resp[r2]], heap), args |-> <<>>], NoCalls)

\* r = response_custom_format(text, markdown, files, attachments)
CustomFormat(r, T, M, F, A) ==
  \E text \in T, markdown \in M, files \in F, attachments \in A :
    Bind(r, response_custom_format(heap, text, markdown, files, attachments),
         [by |-> "response_custom_format", arg |-> None,
          args |-> <<text, markdown, files, attachments>>],
         [files |-> IF Truthy(files, heap) THEN <<files>> ELSE <<>>,
          attachments |-> IF Truthy(attachments, heap) THEN <<attachments>> ELSE <<>>])

\* r = response_from_adaptive_card(card)
FromCard(r, C) ==
  \E card \in C :
    Bind(r, response_from_adaptive_card(heap, card),
         [by |-> "response_from_adaptive_card", arg |-> None, args |-> <<card>>],
         [files |-> <<>>,
          attachments |-> <<Dict(<<Pair("contentType", CardContentType),
                                   Pair("content", to_dict(card))>>)>>])

\* a scalar setter call leaving heap h1
ScalarCall(r, h1) ==
  /\ calls' = [calls EXCEPT ![r] = @ + 1]
  /\ err' = ""
  /\ UNCHANGED <<resp, origin, passed>>
  /\ heap' = h1

Callable(r) == resp[r] # 0 /\ CallsLeft

SetText(r, V) ==
  \E val \in V : Callable(r) /\ ScalarCall(r, text_setter(heap, resp[r], val))

SetRoomId(r, V) ==
  \E val \in V : Callable(r) /\ ScalarCall(r, roomId_setter(heap, resp[r], val))

SetParentId(r, V) ==
  \E val \in V : Callable(r) /\ ScalarCall(r, parentId_setter(heap, resp[r], val))

SetMarkdown(r, V) ==
  \E val \in V : Callable(r) /\ ScalarCall(r, markdown_setter(heap, resp[r], val))

SetHtml(r, V) ==
  \E val \in V : Callable(r) /\ ScalarCall(r, html_setter(heap, resp[r], val))

\* r.files = val; an exception leaves the heap as it was
SetFiles(r, V) ==
  \E val \in V :
    /\ Callable(r)
    /\ err' = AppendError(heap, resp[r], "files")
    /\ heap' = IF err' = "" THEN files_setter(heap, resp[r], val) ELSE heap
    /\ passed' = [passed EXCEPT ![r].files = Append(@, val)]
    /\ calls' = [calls EXCEPT ![r] = @ + 1]
    /\ UNCHANGED <<resp, origin>>

\* r.attachments = val
SetAttachments(r, V) ==
  \E val \in V :
    /\ Callable(r)
    /\ err' = AppendError(heap, resp[r], "attachments")
    /\ heap' = IF err' = "" THEN attachments_setter(heap, resp[r], val) ELSE heap
    /\ passed' = [passed EXCEPT ![r].attachments = Append(@, val)]
    /\ calls' = [calls EXCEPT ![r] = @ + 1]
    /\ UNCHANGED <<resp, origin>>

\* One Response, every way of constructing it, every setter.
Next ==
  \E r \in {1} :
    \/ Construct(r, {None} \cup Mappings)
    \/ CustomFormat(r, TextArgs, MarkdownArgs, FilesArgs, AttachmentsArgs)
    \/ FromCard(r, Cards)
    \/ SetText(r, ScalarVals)
    \/ SetRoomId(r, ScalarVals)
    \/ SetParentId(r, ScalarVals)
    \/ SetMarkdown(r, ScalarVals)
    \/ SetHtml(r, ScalarVals)
    \/ SetFiles(r, FileVals)
    \/ SetAttachments(r, AttachmentVals)

Spec == Init /\ [][Next]_vars

\* Two Responses, interleaved calls; the second may be built on the first's
\* record.
NextTwo ==
  \E r \in Slots :
    \/ Construct(r, {None})
    \/ ConstructFrom(r)
    \/ CustomFormat(r, {Str("hi")}, MarkdownArgs, {None, List(<<Str("f1.png")>>)}, {None})
    \/ FromCard(r, {[version |-> "1.1", body |-> <<>>]})
    \/ SetText(r, {Str("hi")})
    \/ SetRoomId(r, {Str("room")})
    \/ SetParentId(r, {Str("parent")})
    \/ SetMarkdown(r, {Str("**hi**")})
    \/ SetHtml(r, {Str("<b>hi</b>")})
    \/ SetFiles(r, {Str("f1.png")})
    \/ SetAttachments(r, {Str("a1")})

SpecTwo == Init /\ [][NextTwo]_vars

----------------------------------------------------------------------------
(* views of the state *)

Bound(r) == resp[r] # 0

\* what reading field k of Response r returns
Field(r, k) == Getter(heap, resp[r], k)

\* the record of Response r with its lists written out
Record(r) == Inline(heap[resp[r]], heap).l

\* the mapping a sequence of pairs stands for (dict equality ignores order)
AsMap(ps) == [k \in Keys(ps) |-> DictGet(ps, k)]

IsList(v) == v.t = "ref" /\ heap[v.n].t = "list"

TypeOK ==
  /\ resp \in [Slots -> 0..Len(heap)]
  /\ \A r \in Slots : Bound(r) => heap[resp[r]].t = "dict"
  /\ err \in {"", "KeyError", "AttributeError"}
  /\ calls[1] + calls[2] <= MaxCalls

RoundTrip ==
  \A r \in Slots : Bound(r) =>
    AsMap(Loads(json(heap, resp[r])).l) = AsMap(Record(r))

\* the contents of list field k of the record at a in heap h
Contents(h, a, k) == Inline(Getter(h, a, k), h).l

\* the contents of the list fields of Response r
Files(r) == Contents(heap, resp[r], "files")

Attachments(r) == Contents(heap, resp[r], "attachments")

\* The record of r was built by lines 86-93: no mapping, or an empty one.
DefaultInitialized(r) == origin[r].by # "unbound" /\ origin[r].arg.l = <<>>

\* r was constructed with no input, directly or inside a builder.
NoInput(r) == origin[r].by # "unbound" /\ origin[r].arg = None

\* The falsy values of Python that occur in the model.
Falsy == {None, Str(""), Num(0), Bool(FALSE), List(<<>>), Dict(<<>>)}

IsPrefix(xs, ys) == Len(xs) <= Len(ys) /\ \A i \in 1..Len(xs) : xs[i] = ys[i]

----------------------------------------------------------------------------
\* C1 (as stated): in every reachable state of a Response, however it was
\* constructed, files and attachments are both sequences.
C1_ListsNeverNull ==
  \A r \in Slots : Bound(r) =>
    IsList(Field(r, "files")) /\ IsList(Field(r, "attachments"))

\* The mapping handed to the constructor of r, if any, holds sequences under
\* files and attachments.
SuppliedLists(r) ==
  \/ DefaultInitialized(r)
  \/ /\ DictGet(origin[r].arg.l, "files").t = "list"
     /\ DictGet(origin[r].arg.l, "attachments").t = "list"

\* C1 (amended): a Response constructed with no input, or with a mapping
\* that is empty or holds sequences under files and attachments, has
\* sequences in files and attachments in every reachable state.
C1_ListsStayLists ==
  \A r \in Slots : (Bound(r) /\ SuppliedLists(r)) =>
    IsList(Field(r, "files")) /\ IsList(Field(r, "attachments"))

C1_Witness ==
  /\ Bound(1)
  /\ origin[1].arg = TruthyMapping
  /\ Files(1) = <<Str("f0.png"), Str("f1.png")>>
  /\ Attachments(1) = <<Str("a1")>>
  /\ Field(1, "text") = None

\* C2: on a default-initialized Response the files field is the sequence of
\* the values passed to the files setter, in call order, and likewise for
\* attachments; a step never removes or moves an element.
C2_AppendOnly ==
  /\ [](\A r \in Slots : (Bound(r) /\ DefaultInitialized(r)) =>
          /\ Files(r) = passed[r].files
          /\ Attachments(r) = passed[r].attachments)
  /\ [][\A r \in Slots : (Bound(r) /\ DefaultInitialized(r)) =>
          /\ IsPrefix(Files(r), Contents(heap', resp'[r], "files"))
          /\ IsPrefix(Attachments(r), Contents(heap', resp'[r], "attachments"))]_vars

C2_Witness ==
  /\ Bound(1)
  /\ origin[1] = [by |-> "Response", arg |-> None, args |-> <<>>]
  /\ passed[1].files = <<Str("f1.png"), List(<<Str("f2.png"), Str("f3.png")>>)>>
  /\ Files(1) = <<Str("f1.png"), List(<<Str("f2.png"), Str("f3.png")>>)>>
  /\ Attachments(1) = <<Str("a1")>>

\* C3: as_dict() holds exactly the keys of the record whose value is not
\* falsy, each with the record's value; no falsy value is included.
C3_AsDictTruthyOnly ==
  \A r \in Slots : Bound(r) =>
    LET ret == as_dict(heap, resp[r])
        rec == heap[resp[r]].l
    IN /\ Keys(ret) = {k \in Keys(rec) : Inline(DictGet(rec, k), heap) \notin Falsy}
       /\ \A k \in Keys(ret) : DictGet(ret, k) = DictGet(rec, k)
       /\ \A i \in 1..Len(ret) : Inline(ret[i].l[1], heap) \notin Falsy
       /\ Len(ret) = Cardinality(Keys(ret))

C3_Witness ==
  /\ Bound(1)
  /\ origin[1].arg = FalsyMapping
  /\ Field(1, "html") = Str("hi")
  /\ Files(1) = <<Str("f1.png")>>
  /\ Keys(as_dict(heap, resp[1])) = {"html", "files"}
  /\ Keys(heap[resp[1]].l) = CanonicalKeys

\* the keys of the mapping that parsing the JSON text of r gives
JsonKeys(r) == Keys(Loads(json(heap, resp[r])).l)

AsDictKeys(r) == Keys(as_dict(heap, resp[r]))

\* C4 (as stated): the parsed JSON view of any Response has all seven
\* canonical keys, and the keys of as_dict() are among the JSON view's keys.
C4_JsonHasAllKeys ==
  \A r \in Slots : Bound(r) =>
    /\ CanonicalKeys \subseteq JsonKeys(r)
    /\ AsDictKeys(r) \subseteq JsonKeys(r)

\* C4 (amended): for a Response constructed with no input or an empty
\* mapping, or with a mapping that has all seven canonical keys, the parsed
\* JSON view has all seven keys, as_dict() omits the falsy ones, and the keys
\* of as_dict() are among the JSON view's keys; the last holds of every
\* Response.
C4_JsonKeepsWhatAsDictDrops ==
  \A r \in Slots : Bound(r) =>
    /\ AsDictKeys(r) \subseteq JsonKeys(r)
    /\ (DefaultInitialized(r) \/ CanonicalKeys \subseteq Keys(origin[r].arg.l)) =>
         /\ CanonicalKeys \subseteq JsonKeys(r)
         /\ \A k \in CanonicalKeys :
              Inline(Field(r, k), heap) \in Falsy => k \notin AsDictKeys(r)

C4_Witness ==
  /\ Bound(1)
  /\ origin[1] = [by |-> "Response", arg |-> None, args |-> <<>>]
  /\ Field(1, "text") = Str("hi")
  /\ Field(1, "html") = Str("")
  /\ AsDictKeys(1) = {"text"}
  /\ JsonKeys(1) = CanonicalKeys

\* r is as response_custom_format returned it.
FreshCustom(r) ==
  Bound(r) /\ origin[r].by = "response_custom_format" /\ calls[r] = 0

\* C5 (as stated): response_custom_format gives the text and markdown given;
\* files is [files] whenever a files sequence is supplied and empty when it
\* is omitted; the same for attachments.
C5_SuppliedIsNested ==
  \A r \in Slots : FreshCustom(r) =>
    LET args == origin[r].args
    IN /\ Field(r, "text") = args[1]
       /\ Field(r, "markdown") = args[2]
       /\ Files(r) = IF args[3] = None THEN <<>> ELSE <<args[3]>>
       /\ Attachments(r) = IF args[4] = None THEN <<>> ELSE <<args[4]>>

\* C5 (amended): response_custom_format gives the text and markdown given;
\* files is [files] whenever a non-empty files sequence is supplied and empty
\* when it is omitted or empty; the same for attachments, independently.
C5_NonEmptyIsNested ==
  \A r \in Slots : FreshCustom(r) =>
    LET args == origin[r].args
    IN /\ Field(r, "text") = args[1]
       /\ Field(r, "markdown") = args[2]
       /\ Files(r) = IF args[3] \in {None, List(<<>>)} THEN <<>> ELSE <<args[3]>>
       /\ Attachments(r) = IF args[4] \in {None, List(<<>>)} THEN <<>> ELSE <<args[4]>>

C5_Witness ==
  /\ FreshCustom(1)
  /\ origin[1].args = <<Str("hi"), Str("**hi**"), List(<<Str("f1.png")>>), None>>
  /\ Files(1) = <<List(<<Str("f1.png")>>)>>
  /\ Attachments(1) = <<>>
  /\ Field(1, "text") = Str("hi")

\* r is as Response(m) returned it, m a mapping.
FreshFromMapping(r) ==
  Bound(r) /\ origin[r].by = "Response" /\ origin[r].arg # None /\ calls[r] = 0

\* C6 (as stated): for every supplied mapping m the record of Response(m)
\* has exactly the keys and values of m.
C6_MappingIsRecord ==
  \A r \in Slots : FreshFromMapping(r) =>
    /\ Keys(Record(r)) = Keys(origin[r].arg.l)
    /\ AsMap(Record(r)) = AsMap(origin[r].arg.l)

\* C6 (amended): for every non-empty supplied mapping m the record of
\* Response(m) has exactly the keys and values of m.
C6_NonEmptyMappingIsRecord ==
  \A r \in Slots : (FreshFromMapping(r) /\ origin[r].arg # EmptyMapping) =>
    /\ Keys(Record(r)) = Keys(origin[r].arg.l)
    /\ AsMap(Record(r)) = AsMap(origin[r].arg.l)

C6_Witness ==
  /\ FreshFromMapping(1)
  /\ origin[1].arg = PartialMapping
  /\ Keys(Record(1)) = {"text"}
  /\ Field(1, "files") = KeyError

\* C7: response_from_adaptive_card gives one attachment, the envelope of the
\* card's export, the fallback string as text and markdown, no files, and
\* html, roomId and parentId absent.
C7_CardResponse ==
  \A r \in Slots :
    (Bound(r) /\ origin[r].by = "response_from_adaptive_card" /\ calls[r] = 0) =>
      /\ Attachments(r) =
           <<Dict(<<Pair("contentType", Str("application/vnd.microsoft.card.adaptive")),
                    Pair("content", to_dict(origin[r].args[1]))>>)>>
      /\ Field(r, "text") = Str("This bot requires a client which can render cards.")
      /\ Field(r, "markdown") = Str("This bot requires a client which can render cards.")
      /\ Files(r) = <<>>
      /\ IsList(Field(r, "files"))
      /\ \A k \in {"html", "roomId", "parentId"} : Field(r, k) = None

C7_Witness ==
  /\ Bound(1)
  /\ origin[1].by = "response_from_adaptive_card"
  /\ origin[1].args[1].version = "1.2"
  /\ calls[1] = 0
  /\ Len(Attachments(1)) = 1
  /\ AsDictKeys(1) = {"text", "markdown", "attachments"}

\* C8: a Response constructed with no input has empty files and attachments
\* and the five scalar fields absent; its as_dict() is the empty mapping.
C8_DefaultRecord ==
  \A r \in Slots :
    (Bound(r) /\ origin[r] = [by |-> "Response", arg |-> None, args |-> <<>>]
       /\ calls[r] = 0) =>
      /\ IsList(Field(r, "files")) /\ Files(r) = <<>>
      /\ IsList(Field(r, "attachments")) /\ Attachments(r) = <<>>
      /\ \A k \in ScalarKeys : Field(r, k) = None
      /\ Keys(heap[resp[r]].l) = CanonicalKeys
      /\ as_dict(heap, resp[r]) = <<>>

C8_Witness ==
  /\ Bound(1)
  /\ origin[1] = [by |-> "Response", arg |-> None, args |-> <<>>]
  /\ calls[1] = 0
  /\ Record(1) # <<>>

\* the call r.k = val of a scalar setter
ScalarSet(r, k, val) ==
  CASE k = "text" -> SetText(r, {val})
    [] k = "roomId" -> SetRoomId(r, {val})
    [] k = "parentId" -> SetParentId(r, {val})
    [] k = "markdown" -> SetMarkdown(r, {val})
    [] k = "html" -> SetHtml(r, {val})

\* C9: after a scalar setter sets field k to val, reading k gives val (null
\* included) and every other field of the record, files and attachments
\* included, is as it was.
C9_ScalarSetFrame ==
  [][\A r \in Slots : calls'[r] = calls[r] + 1 =>
       \A k \in ScalarKeys, val \in ScalarVals :
       ScalarSet(r, k, val) =>
         /\ Getter(heap', resp'[r], k) = val
         /\ \A k2 \in (CanonicalKeys \cup Keys(heap[resp[r]].l)) \ {k} :
              /\ Getter(heap', resp'[r], k2) = Field(r, k2)
              /\ Inline(Getter(heap', resp'[r], k2), heap') = Inline(Field(r, k2), heap)
         /\ Keys(heap'[resp'[r]].l) = Keys(heap[resp[r]].l) \cup {k}]_vars

C9_Witness ==
  /\ Bound(1)
  /\ origin[1].arg = PartialMapping
  /\ calls[1] = 3
  /\ Field(1, "html") = Str("hi")
  /\ Field(1, "text") = None
  /\ Field(1, "markdown") = Str("")
  /\ Field(1, "files") = KeyError

\* the step is a call on r or the construction of r
OperationOn(r) == calls'[r] # calls[r] \/ resp'[r] # resp[r]

\* C10: two Responses each constructed with no input share no state: an
\* operation on one changes no field of the other.
C10_NoSharedState ==
  [][\A r \in Slots, r2 \in Slots :
       (r # r2 /\ OperationOn(r) /\ origin'[r].by # "unbound" /\ origin'[r].arg = None
          /\ Bound(r2) /\ NoInput(r2)) =>
         /\ resp'[r2] = resp[r2]
         /\ heap'[resp[r2]] = heap[resp[r2]]
         /\ Inline(heap'[resp'[r2]], heap') = Inline(heap[resp[r2]], heap)]_vars

C10_Witness ==
  /\ Bound(1) /\ Bound(2)
  /\ origin[1] = [by |-> "Response", arg |-> None, args |-> <<>>]
  /\ origin[2].by = "response_custom_format"
  /\ Files(1) = <<Str("f1.png")>>
  /\ Files(2) = <<List(<<Str("f1.png")>>)>>
  /\ Attachments(1) = <<>>
  /\ Attachments(2) = <<Str("a1")>>
  /\ Field(1, "text") = None
  /\ Field(2, "text") = Str("hi")
  /\ calls[1] = 1 /\ calls[2] = 1

====
